---- MODULE Spec2Model ----
(***************************************************************************)
(* Model of the cooperative event loop of src/core.py (class EventLoop):   *)
(* the normal timed queue q (NQ), the low priority timed queue lpq (LPQ),  *)
(* the high priority slot table hpq (HPQ), the selection rule and the      *)
(* dispatch of run_forever, and the interpretation of the values a task    *)
(* yields.                                                                 *)
(*                                                                         *)
(* Python values are encoded as follows.  A task (generator) is a number   *)
(* of Tasks, a plain function a number of Fns, a When predicate a number   *)
(* of Preds, an I/O handle a number of Handles.  An args tuple is a        *)
(* sequence.  A queue entry and the cur_task buffer are <<t, cb, args>>.   *)
(* The integer 0 that the code stores in an unused args position           *)
(* ([0, 0, 0]) is written <<>>: the code never reads args of an entry      *)
(* whose predicate or payload is 0.                                        *)
(***************************************************************************)
EXTENDS Integers, Sequences, FiniteSets, TLC

\* ------------------------------------------------------------- bounds
\* Capacity of NQ and of LPQ handed to get_event_loop.
QLenArg == 2
LpqLenArg == 2
\* Number of task (generator) identities.
NTasks == 2
\* Number of When predicates.
NPreds == 1
\* Largest delay, in ms, a task or a caller asks for.
MaxDelay == 2
\* Largest value given to max_overdue_ms.
MaxOverdue == 1
\* Number of calls of the public interface user code makes in a run, and
\* number of entries the loop dispatches in a run.
MaxCalls == 3
MaxTicks == 2
\* Longest time, in ms, one dispatched callback or task resumption takes.
MaxRun == 1

\* Width of the millisecond clock, in bits.  ticks_diff orders two times
\* only while they are less than half a period apart, so the clock is the
\* narrowest one that keeps the keys of a busy loop that close: an entry
\* waits behind at most QLenArg dispatches of MaxRun ms each, and a new key
\* is at most MaxDelay ms ahead.  (A wait() that returns late still laps
\* the keys: see ClockTick.)
Span == MaxDelay + QLenArg * MaxRun
W == CHOOSE w \in 2..30 : 2^(w - 1) >= Span /\ 2^(w - 2) < Span

Period == 2^W
Half == Period \div 2

Tasks == 1..NTasks
Fns == {101}
Preds == 1..NPreds
Handles == {1}
Delays == 0..MaxDelay
\* Seconds arguments (Sleep, After, call_later, call_after), counted in
\* half milliseconds: n stands for n/2000 s.
Secs == 0..(2 * MaxDelay + 1)
ArgTuples == {<<1>>}
StopValues == {0, 42}

\* ------------------------------------------------------------- values
NoneV == [ty |-> "None", v |-> 0]
IntV(n) == [ty |-> "int", v |-> n]
Unset == [ty |-> "unset", v |-> 0]

Dir(tag, arg) == [tag |-> tag, arg |-> arg]
NoDir == Dir("none", 0)

\* callable(cb): a plain function, as opposed to a generator.
Callable(cb) == cb \in Fns

\* ------------------------------------------------------------- clock
\* utime.ticks_add and utime.ticks_diff: arithmetic modulo the period, the
\* difference read as the signed distance in [-Half, Half).
ticks_add(t, d) == (t + d) % Period
ticks_diff(a, b) == ((a - b + Half) % Period) - Half

\* int(secs * 1000): truncation of a number of half milliseconds.
SecsToMs(n) == n \div 2

\* ------------------------------------------------------------- utimeq
\* The timed queue as the sequence of its entries in pop order: ordered
\* by ticks_diff of the keys, entries of equal key in insertion order.
\* InsertPos that compares the keys as plain integers.
RECURSIVE InsertPosRaw(_, _, _)
InsertPosRaw(qu, t, i) ==
  IF i > Len(qu) THEN i
  ELSE IF t < qu[i][1] THEN i
  ELSE InsertPosRaw(qu, t, i + 1)

RECURSIVE InsertPos(_, _, _)
InsertPos(qu, t, i) ==
  IF i > Len(qu) THEN i
  ELSE IF ticks_diff(t, qu[i][1]) < 0 THEN i
  ELSE InsertPos(qu, t, i + 1)

Inserted(qu, t, cb, args) ==
  LET i == InsertPos(qu, t, 1)
  IN  SubSeq(qu, 1, i - 1) \o << <<t, cb, args>> >> \o SubSeq(qu, i, Len(qu))

\* push on a full queue fails (QueueFull).
Full(qu, cap) == Len(qu) >= cap

peektime(qu) == qu[1][1]

\* ------------------------------------------------------------- state
VARIABLES
  clock,        \* time.ticks_ms()
  q,            \* self.q
  lpq,          \* self.lpq
  hpq,          \* self.hpq
  max_overdue,  \* self._max_overdue_ms
  flag,         \* what each When predicate returns when called
  readers,      \* reactor: handle -> task waiting to read (0: none)
  writers,      \* reactor: handle -> task waiting to write (0: none)
  pc,           \* where the loop is
  cur_task,     \* run_forever's cur_task buffer
  sel,          \* the rule of the selection that filled cur_task
  delay,        \* the argument of the wait() in progress
  retval,       \* what run_forever returned
  err,          \* the exception that left run_forever
  fresh,        \* generators not handed to the loop yet
  wrapper,      \* the task run_until_complete wrapped (0: none)
  rucResult,    \* what run_until_complete returned
  calls,        \* the reactor calls of the latest dispatch
  apiResult,    \* outcome of the latest call of the public interface
  sleepLeft,    \* per task: ms left of the delay it last asked for
  slept,        \* per task: whether it last asked for a delay > 0
  ncalls,       \* calls of the public interface made so far
  nticks        \* entries dispatched so far

vars == <<clock, q, lpq, hpq, max_overdue, flag, readers, writers, pc,
          cur_task, sel, delay, retval, err, fresh, wrapper,
          rucResult, calls, apiResult, sleepLeft, slept, ncalls, nticks>>

loopVars == <<pc, cur_task, sel, delay, retval, err, calls, nticks>>

\* get_event_loop packs both capacities into one word; __init__ unpacks.
LoopLen == QLenArg + LpqLenArg * 65536

\* qlen without the 16-bit mask: the LPQ capacity is counted in.
qlenNoMask == LoopLen

qlen == LoopLen % 65536
lpqlen == LoopLen \div 65536

\* self.hpq: None, or a Python list.  The list is raw \o slots: slots are
\* the [predicate, callback, args] entries, raw holds the three bare items
\* func, callback, args that _schedule_hp stores when the table is absent.
HpqNone == [isNone |-> TRUE, raw |-> <<>>, slots |-> <<>>]
HpqLen(h) == Len(h.raw) + Len(h.slots)

Init ==
  /\ clock = Period - 2
  /\ q = <<>>
  /\ lpq = <<>>
  /\ hpq = HpqNone
  /\ max_overdue = 0
  /\ flag \in [Preds -> BOOLEAN]
  /\ readers = [h \in Handles |-> 0]
  /\ writers = [h \in Handles |-> 0]
  /\ pc = "init"
  /\ cur_task = <<0, 0, <<>>>>
  /\ sel = "none"
  /\ delay = 0
  /\ retval = Unset
  /\ err = "none"
  /\ fresh = Tasks
  /\ wrapper = 0
  /\ rucResult = Unset
  /\ calls = <<>>
  /\ apiResult = "ok"
  /\ sleepLeft = [t \in Tasks |-> 0]
  /\ slept = [t \in Tasks |-> FALSE]
  /\ ncalls = 0
  /\ nticks = 0

\* ------------------------------------------------------------- pushes
\* utimeq.push(t, cb, args) on a queue of capacity cap: the queue when
\* there is room, QueueFull (ok = FALSE, the queue as it was) otherwise.
push(qu, cap, t, cb, args) ==
  IF Full(qu, cap) THEN [ok |-> FALSE, qu |-> qu]
  ELSE [ok |-> TRUE, qu |-> Inserted(qu, t, cb, args)]

\* EventLoop.call_at and call_at_: self.q.push(time, callback, args).
call_at(qu, time, callback, args) == push(qu, qlen, time, callback, args)

call_at_(qu, time, callback, args) == push(qu, qlen, time, callback, args)

\* call_soon with a key one millisecond after now.
call_soonLate(qu, now, callback, args) ==
  call_at(qu, ticks_add(now, 1), callback, args)

\* EventLoop.call_soon: call_at(self.time(), callback, *args).
call_soon(qu, now, callback, args) == call_at(qu, now, callback, args)

\* EventLoop.call_later: call_at(ticks_add(self.time(), int(delay * 1000))).
call_later(qu, now, secs, callback, args) ==
  call_at(qu, ticks_add(now, SecsToMs(secs)), callback, args)

\* call_later_ms_ that drops the delay, and call_later_ms_ that counts the
\* delay from the time of the entry just popped instead of the time now.
call_later_ms_Now(qu, now, d, callback, args) ==
  call_at_(qu, now, callback, args)

call_later_ms_Stale(qu, now, d, callback, args) ==
  call_at_(qu, ticks_add(cur_task[1], d), callback, args)

\* EventLoop.call_later_ms_: call_at_(ticks_add(self.time(), delay)).
call_later_ms_(qu, now, d, callback, args) ==
  call_at_(qu, ticks_add(now, d), callback, args)

\* EventLoop.call_after_ms_: self.lpq.push(ticks_add(self.time(), delay)).
call_after_ms_(lq, now, d, callback, args) ==
  push(lq, lpqlen, ticks_add(now, d), callback, args)

\* EventLoop.call_after: self.lpq.push(ticks_add(time, int(delay * 1000))).
call_after(lq, now, secs, callback, args) ==
  push(lq, lpqlen, ticks_add(now, SecsToMs(secs)), callback, args)

\* EventLoop.create_task: call_later_ms_(0, coro).
create_task(qu, now, coro) == call_later_ms_(qu, now, 0, coro, <<>>)

\* ------------------------------------------------------------- HPQ
EmptySlot == <<0, 0, <<>>>>

RECURSIVE FirstEmpty(_, _)
FirstEmpty(slots, i) ==
  IF i > Len(slots) THEN 0
  ELSE IF slots[i][1] = 0 THEN i
  ELSE FirstEmpty(slots, i + 1)

\* EventLoop._schedule_hp.  With the table absent the code stores the flat
\* list [func, callback, args].  With a flat list in place the scan for an
\* empty slot subscripts func, which raises TypeError (ok = FALSE).
schedule_hp(h, func, callback, args) ==
  IF h.isNone
  THEN [ok |-> TRUE,
        hpq |-> [isNone |-> FALSE, raw |-> <<func, callback, args>>,
                 slots |-> <<>>]]
  ELSE IF h.raw # <<>> THEN [ok |-> FALSE, hpq |-> h]
  ELSE LET i == FirstEmpty(h.slots, 1)
       IN  IF i # 0
           THEN [ok |-> TRUE,
                 hpq |-> [h EXCEPT !.slots[i] = <<func, callback, args>>]]
           ELSE [ok |-> TRUE,
                 hpq |-> [h EXCEPT !.slots =
                                     Append(@, <<func, callback, args>>)]]

\* EventLoop.allocate_hpq.
allocate_hpq(h, size) ==
  LET base == IF h.isNone
              THEN [isNone |-> FALSE, raw |-> <<>>, slots |-> <<>>]
              ELSE h
      n == size - HpqLen(base)
  IN  [base EXCEPT !.slots =
                     @ \o [i \in 1..(IF n > 0 THEN n ELSE 0) |-> EmptySlot]]

\* ------------------------------------------------------------- user calls
\* The public interface is called by user code, which sets the loop up
\* before it starts it.
UserRuns == pc = "init" /\ ncalls < MaxCalls

Payloads == Fns \cup fresh

\* Arguments given with a payload: a generator is scheduled without any.
ArgsOf(cb) == IF Callable(cb) THEN ArgTuples ELSE {<<>>}

CallNQ(r, cb) ==
  /\ UserRuns
  /\ ncalls' = ncalls + 1
  /\ q' = r.qu
  /\ apiResult' = IF r.ok THEN "ok" ELSE "QueueFull"
  /\ fresh' = IF r.ok THEN fresh \ {cb} ELSE fresh
  /\ UNCHANGED <<clock, lpq, hpq, max_overdue, flag, readers, writers,
                 wrapper, rucResult, sleepLeft, slept, loopVars>>

CallSoon(cb, args) == CallNQ(call_soon(q, clock, cb, args), cb)

CallLater(secs, cb, args) == CallNQ(call_later(q, clock, secs, cb, args), cb)

CallAt(time, cb, args) == CallNQ(call_at(q, time, cb, args), cb)

CreateTask(coro) == CallNQ(create_task(q, clock, coro), coro)

CallAfter(secs, cb, args) ==
  /\ UserRuns
  /\ ncalls' = ncalls + 1
  /\ LET r == call_after(lpq, clock, secs, cb, args)
     IN  /\ lpq' = r.qu
         /\ apiResult' = IF r.ok THEN "ok" ELSE "QueueFull"
         /\ fresh' = IF r.ok THEN fresh \ {cb} ELSE fresh
  /\ UNCHANGED <<clock, q, hpq, max_overdue, flag, readers, writers,
                 wrapper, rucResult, sleepLeft, slept, loopVars>>

\* EventLoop.max_overdue_ms(t) with t not None.
MaxOverdueMs(t) ==
  /\ UserRuns
  /\ ncalls' = ncalls + 1
  /\ max_overdue' = t
  /\ apiResult' = "ok"
  /\ UNCHANGED <<clock, q, lpq, hpq, flag, readers, writers, fresh,
                 wrapper, rucResult, sleepLeft, slept, loopVars>>

AllocateHpq(size) ==
  /\ UserRuns
  /\ ncalls' = ncalls + 1
  /\ hpq' = allocate_hpq(hpq, size)
  /\ apiResult' = "ok"
  /\ UNCHANGED <<clock, q, lpq, max_overdue, flag, readers, writers, fresh,
                 wrapper, rucResult, sleepLeft, slept, loopVars>>

\* ------------------------------------------------------------- selection
Min(a, b) == IF a <= b THEN a ELSE b

\* The HPQ scan: the first slot whose predicate is set and truthy (0: none).
RECURSIVE HpFound(_, _, _)
HpFound(slots, fl, i) ==
  IF i > Len(slots) THEN 0
  ELSE IF slots[i][1] # 0 /\ fl[slots[i][1]] THEN i
  ELSE HpFound(slots, fl, i + 1)

\* Overdue counted one millisecond short.
OverdueLate(lq, tnow) == -ticks_diff(peektime(lq), tnow) - 1

\* -ticks_diff(t, tnow) of the LPQ head.
Overdue(lq, tnow) == -ticks_diff(peektime(lq), tnow)

\* Rule with "NQ due" tried before the LPQ-overdue override.
RuleNqFirst(nq, lq, h, mo, fl, tnow) ==
  IF nq # <<>>
  THEN IF ~h.isNone /\ h.raw # <<>> THEN "hp_error"
       ELSE IF ~h.isNone /\ HpFound(h.slots, fl, 1) # 0 THEN "hp"
       ELSE IF ticks_diff(peektime(nq), tnow) <= 0 THEN "nq"
       ELSE IF lq # <<>> /\ mo > 0 /\ Overdue(lq, tnow) > mo
            THEN "lp_overdue"
       ELSE IF lq # <<>> /\ ticks_diff(peektime(lq), tnow) <= 0 THEN "lp"
       ELSE "wait"
  ELSE IF lq # <<>> /\ ticks_diff(peektime(lq), tnow) <= 0 THEN "lp_idle"
       ELSE "wait_forever"

\* Rule with the override tried whatever max_overdue_ms is.
RuleAlwaysOverride(nq, lq, h, mo, fl, tnow) ==
  IF nq # <<>>
  THEN IF ~h.isNone /\ h.raw # <<>> THEN "hp_error"
       ELSE IF ~h.isNone /\ HpFound(h.slots, fl, 1) # 0 THEN "hp"
       ELSE IF lq # <<>> /\ Overdue(lq, tnow) > mo THEN "lp_overdue"
       ELSE IF ticks_diff(peektime(nq), tnow) <= 0 THEN "nq"
       ELSE IF lq # <<>> /\ ticks_diff(peektime(lq), tnow) <= 0 THEN "lp"
       ELSE "wait"
  ELSE IF lq # <<>> /\ ticks_diff(peektime(lq), tnow) <= 0 THEN "lp_idle"
       ELSE "wait_forever"

\* One pass of the selection of run_forever: which branch it takes.
\*   hp_error     the scan subscripts a bare item of a flat table
\*   hp           a predicate fired              lp_overdue  overdue LPQ head
\*   nq           the NQ head is due             lp          the LPQ head is due
\*   wait         wait(delay)                    lp_idle     NQ empty, LPQ due
\*   wait_forever NQ empty: wait(-1)
Rule(nq, lq, h, mo, fl, tnow) ==
  IF nq # <<>>
  THEN IF ~h.isNone /\ h.raw # <<>> THEN "hp_error"
       ELSE IF ~h.isNone /\ HpFound(h.slots, fl, 1) # 0 THEN "hp"
       ELSE IF lq # <<>> /\ mo > 0 /\ Overdue(lq, tnow) > mo
            THEN "lp_overdue"
       ELSE IF ticks_diff(peektime(nq), tnow) <= 0 THEN "nq"
       ELSE IF lq # <<>> /\ ticks_diff(peektime(lq), tnow) <= 0 THEN "lp"
       ELSE "wait"
  ELSE IF lq # <<>> /\ ticks_diff(peektime(lq), tnow) <= 0 THEN "lp_idle"
       ELSE "wait_forever"

\* The argument of wait(): min(delay, lpdelay), or -1 with NQ empty.
WaitDelay(nq, lq, tnow) ==
  IF nq = <<>> THEN -1
  ELSE LET d == ticks_diff(peektime(nq), tnow)
       IN  IF lq # <<>> THEN Min(d, ticks_diff(peektime(lq), tnow)) ELSE d

\* One pass of the selection (lines 102-164): an entry is moved to
\* cur_task, or the loop blocks in wait(), or the scan fails.
Select ==
  /\ pc = "select"
  /\ \E r \in {Rule(q, lpq, hpq, max_overdue, flag, clock)} :
     \E i \in {HpFound(hpq.slots, flag, 1)} :
         /\ nticks' = IF r \in {"hp", "lp_overdue", "nq", "lp", "lp_idle"}
                      THEN Min(nticks + 1, MaxTicks) ELSE nticks
         /\ sel' = IF r \in {"hp", "lp_overdue", "nq", "lp", "lp_idle"}
                   THEN r ELSE "none"
         /\ pc' = CASE r = "hp_error" -> "crashed"
                    [] r \in {"wait", "wait_forever"} -> "wait"
                    [] OTHER -> "dispatch"
         /\ err' = IF r = "hp_error" THEN "TypeError" ELSE err
         /\ delay' = IF r \in {"wait", "wait_forever"}
                     THEN WaitDelay(q, lpq, clock) ELSE 0
         /\ cur_task' = CASE r = "hp" -> <<0, hpq.slots[i][2], hpq.slots[i][3]>>
                          [] r \in {"lp_overdue", "lp", "lp_idle"} -> Head(lpq)
                          [] r = "nq" -> Head(q)
                          [] OTHER -> cur_task
         /\ hpq' = IF r = "hp" THEN [hpq EXCEPT !.slots[i][1] = 0] ELSE hpq
         /\ q' = IF r = "nq" THEN Tail(q) ELSE q
         /\ lpq' = IF r \in {"lp_overdue", "lp", "lp_idle"}
                   THEN Tail(lpq) ELSE lpq
  /\ calls' = <<>>
  /\ apiResult' = "ok"
  /\ UNCHANGED <<clock, max_overdue, flag, readers, writers, retval, fresh,
                 wrapper, rucResult, sleepLeft, slept, ncalls>>

\* ------------------------------------------------------------- reactor
\* wait() returns: in time, late, or early.
WaitReturn ==
  /\ pc = "wait"
  /\ pc' = "select"
  /\ delay' = 0
  /\ UNCHANGED <<clock, q, lpq, hpq, max_overdue, flag, readers, writers,
                 cur_task, sel, retval, err, fresh, wrapper, rucResult,
                 calls, apiResult, sleepLeft, slept, ncalls, nticks>>

\* Inside wait() the reactor finds a registered handle ready and hands the
\* task back with call_soon; QueueFull leaves wait() and run_forever.
IOReady(h, writing) ==
  /\ pc = "wait"
  /\ LET reg == IF writing THEN writers ELSE readers
         r == call_soon(q, clock, reg[h], <<>>)
     IN  /\ reg[h] # 0
         /\ q' = r.qu
         /\ pc' = IF r.ok THEN pc ELSE "crashed"
         /\ err' = IF r.ok THEN err ELSE "QueueFull"
         /\ readers' = IF writing THEN readers ELSE [readers EXCEPT ![h] = 0]
         /\ writers' = IF writing THEN [writers EXCEPT ![h] = 0] ELSE writers
  /\ UNCHANGED <<clock, lpq, hpq, max_overdue, flag, cur_task, sel, delay,
                 retval, fresh, wrapper, rucResult, calls, apiResult,
                 sleepLeft, slept, ncalls, nticks>>

\* ------------------------------------------------------------- environment
Dec(n, d) == IF n > d THEN n - d ELSE 0

\* sleepLeft after d more milliseconds.
Slept(d) == [t \in Tasks |-> Dec(sleepLeft[t], d)]

\* One millisecond passes while the loop is blocked in wait().  (Time also
\* passes while a callback or a task runs: see RunCallback and Resume.)
ClockTick ==
  /\ pc = "wait"
  /\ clock' = ticks_add(clock, 1)
  /\ sleepLeft' = Slept(1)
  /\ UNCHANGED <<slept, q, lpq, hpq, max_overdue, flag, readers, writers, fresh,
                 wrapper, rucResult, apiResult, ncalls, loopVars>>

\* What a predicate returns changes: by the code that runs, or by an
\* interrupt while the loop waits.
SetFlag(p) ==
  /\ pc \in {"wait", "dispatch"}
  /\ flag' = [flag EXCEPT ![p] = ~@]
  /\ UNCHANGED <<clock, q, lpq, hpq, max_overdue, readers, writers, fresh,
                 wrapper, rucResult, apiResult, sleepLeft, slept, ncalls, loopVars>>

\* ------------------------------------------------------------- directives
\* The classes of the values a task yields (lines 244-331): each tag with
\* the classes isinstance() finds it in.
Mro(tag) ==
  CASE tag = "SleepMs" -> {"SleepMs", "SysCall1"}
    [] tag = "Sleep" -> {"Sleep", "SleepMs", "SysCall1"}
    [] tag = "AfterMs" -> {"AfterMs", "SleepMs", "SysCall1"}
    [] tag = "After" -> {"After", "AfterMs", "SleepMs", "SysCall1"}
    [] tag = "When" -> {"When", "SleepMs", "SysCall1"}
    [] tag \in {"StopLoop", "IORead", "IOWrite", "IOReadDone", "IOWriteDone"}
         -> {tag, "SysCall1"}
    [] tag = "SysCall1" -> {"SysCall1"}
    [] OTHER -> {tag}

\* isinstance that does not know StopLoop.
isinstanceNoStopLoop(r, cls) == cls \in Mro(r.tag) \ {"StopLoop"}

isinstance(r, cls) == cls \in Mro(r.tag)

\* What a resumption of a task may produce: a yielded value, normal
\* completion (StopIteration) or another exception.  The argument of a
\* When is a predicate, or 0 for something that is not callable.
Yields ==
  {Dir(tag, k) : tag \in {"SleepMs", "AfterMs", "int"}, k \in Delays}
  \cup {Dir(tag, n) : tag \in {"Sleep", "After"}, n \in Secs}
  \cup {Dir("When", p) : p \in Preds \cup {0}}
  \cup {Dir(tag, h) : tag \in {"IORead", "IOWrite", "IOReadDone", "IOWriteDone"},
                      h \in Handles}
  \cup {Dir("StopLoop", v) : v \in StopValues}
  \cup {Dir("type_gen", n) : n \in fresh}
  \cup {Dir("SysCall1", 0), Dir("None", 0), Dir("other", 0)}

Outcomes == Yields \cup {Dir("StopIteration", 0), Dir("Exception", 0)}

\* The interpretation of the yielded value (lines 168-220): what the loop
\* does with it, and the delay, priority and func it leaves for the
\* re-enqueue of lines 225-231 (func 0 stands for None).
Act(kind, d, priority, func) ==
  [kind |-> kind, delay |-> d, priority |-> priority, func |-> func]

\* assert False, message: the AssertionError leaves run_forever.
BadWhen == "Argument to 'when' must be a function or method."
UnknownSyscall == "Unknown syscall yielded"
Unsupported == "Unsupported coroutine yield value"

\* A SysCall1 directive (lines 180-210).
HandleSysCall(r) ==
  LET priority == ~isinstance(r, "AfterMs")
  IN  IF isinstance(r, "Sleep") \/ isinstance(r, "After")
      THEN Act("requeue", SecsToMs(r.arg), priority, 0)
      ELSE IF isinstance(r, "When")
      THEN IF r.arg \in Preds
           THEN Act("requeue", 0, priority, r.arg)
           ELSE Act(BadWhen, 0, priority, 0)
      ELSE IF isinstance(r, "SleepMs")
      THEN Act("requeue", r.arg, priority, 0)
      ELSE IF isinstance(r, "IORead") THEN Act("add_reader", 0, priority, 0)
      ELSE IF isinstance(r, "IOWrite") THEN Act("add_writer", 0, priority, 0)
      ELSE IF isinstance(r, "IOReadDone")
      THEN Act("remove_reader", 0, priority, 0)
      ELSE IF isinstance(r, "IOWriteDone")
      THEN Act("remove_writer", 0, priority, 0)
      ELSE IF isinstance(r, "StopLoop") THEN Act("return", 0, priority, 0)
      ELSE Act(UnknownSyscall, 0, priority, 0)

\* Handle without its last assert: an unsupported value is rescheduled.
HandleLenient(r) ==
  IF isinstance(r, "SysCall1") THEN HandleSysCall(r)
  ELSE IF isinstance(r, "type_gen") THEN Act("call_soon", 0, TRUE, 0)
  ELSE IF isinstance(r, "int") THEN Act("requeue", r.arg, TRUE, 0)
  ELSE Act("requeue", 0, TRUE, 0)

Handle(r) ==
  IF isinstance(r, "SysCall1") THEN HandleSysCall(r)
  ELSE IF isinstance(r, "type_gen") THEN Act("call_soon", 0, TRUE, 0)
  ELSE IF isinstance(r, "int") THEN Act("requeue", r.arg, TRUE, 0)
  ELSE IF r.tag = "None" THEN Act("requeue", 0, TRUE, 0)
  ELSE Act(Unsupported, 0, TRUE, 0)

\* The branches that end in continue (lines 197 and 201): the task is left
\* to the reactor.  ContinuesNever: the branches fall through to the
\* re-enqueue.
ContinuesNever(kind) == FALSE

Continues(kind) == kind \in {"add_reader", "add_writer"}

\* run_until_complete's _run_and_stop: what the coro yields passes through,
\* and when the coro completes the wrapper yields StopLoop(0).
Wrapped(cb, o) ==
  IF cb = wrapper /\ o.tag = "StopIteration" THEN Dir("StopLoop", 0) ELSE o

\* The re-enqueue of lines 225-231 on queues nq, lq and table h.
Requeue(nq, lq, h, now, a, cb, args) ==
  IF a.func # 0
  THEN LET s == schedule_hp(h, a.func, cb, args)
       IN  [ok |-> s.ok, error |-> "TypeError", q |-> nq, lpq |-> lq,
            hpq |-> s.hpq]
  ELSE IF a.priority
  THEN LET c == call_later_ms_(nq, now, a.delay, cb, args)
       IN  [ok |-> c.ok, error |-> "QueueFull", q |-> c.qu, lpq |-> lq,
            hpq |-> h]
  ELSE LET c == call_after_ms_(lq, now, a.delay, cb, args)
       IN  [ok |-> c.ok, error |-> "QueueFull", q |-> nq, lpq |-> c.qu,
            hpq |-> h]

\* The resumption of the task in cur_task with outcome o (lines 168-231):
\* the loop's state after it.
Effect(kind, error, nq, lq, h, rd, wr, rv, cl) ==
  [pc |-> kind, err |-> error, q |-> nq, lpq |-> lq, hpq |-> h,
   readers |-> rd, writers |-> wr, retval |-> rv, calls |-> cl]

Keep(kind, error) ==
  Effect(kind, error, q, lpq, hpq, readers, writers, retval, <<>>)

Resumed(o, now) ==
  LET cb == cur_task[2]
      args == cur_task[3]
      r == Wrapped(cb, o)
      a == Handle(r)
  IN  IF r.tag = "StopIteration" THEN Keep("select", err)
      ELSE IF r.tag = "Exception" THEN Keep("crashed", "TaskError")
      ELSE IF a.kind \in {BadWhen, UnknownSyscall, Unsupported}
      THEN Keep("crashed", a.kind)
      ELSE IF a.kind = "return"
      THEN Effect("returned", err, q, lpq, hpq, readers, writers,
                  IntV(r.arg), <<>>)
      ELSE LET n == IF a.kind = "call_soon"
                    THEN call_soon(q, now, r.arg, <<>>)
                    ELSE [ok |-> TRUE, qu |-> q]
               rd == CASE a.kind = "add_reader" -> [readers EXCEPT ![r.arg] = cb]
                       [] a.kind = "remove_reader" -> [readers EXCEPT ![r.arg] = 0]
                       [] OTHER -> readers
               wr == CASE a.kind = "add_writer" -> [writers EXCEPT ![r.arg] = cb]
                       [] a.kind = "remove_writer" -> [writers EXCEPT ![r.arg] = 0]
                       [] OTHER -> writers
               cl == CASE a.kind \in {"add_reader", "add_writer"}
                            -> << <<a.kind, r.arg, cb>> >>
                       [] a.kind \in {"remove_reader", "remove_writer"}
                            -> << <<a.kind, r.arg, 0>> >>
                       [] OTHER -> <<>>
               e == Requeue(n.qu, lpq, hpq, now, a, cb, args)
           IN  IF Continues(a.kind)
               THEN Effect("select", err, q, lpq, hpq, rd, wr, retval, cl)
               ELSE IF ~n.ok
               THEN Effect("crashed", "QueueFull", q, lpq, hpq, rd, wr,
                           retval, cl)
               ELSE IF ~e.ok
               THEN Effect("crashed", e.error, e.q, e.lpq, e.hpq, rd, wr,
                           retval, cl)
               ELSE Effect("select", err, e.q, e.lpq, e.hpq, rd, wr,
                           retval, cl)

\* The delay a task asked for by yielding SleepMs(k) or the integer k.
AskedDelay(r) == IF r.tag \in {"SleepMs", "int"} THEN r.arg ELSE 0

\* ------------------------------------------------------------- dispatch
\* cur_task between two dispatches: the buffer keeps the last entry, which
\* the code overwrites before it reads it again; the model clears it.
Idle == <<0, 0, <<>>>>

\* cb(*args) of a plain function (lines 165-166), which takes d ms:
\* nothing is re-enqueued.
RunCallback(d) ==
  /\ pc = "dispatch"
  /\ Callable(cur_task[2])
  /\ pc' = "select"
  /\ clock' = ticks_add(clock, d)
  /\ sleepLeft' = Slept(d)
  /\ cur_task' = Idle
  /\ sel' = "none"
  /\ UNCHANGED <<slept, q, lpq, hpq, max_overdue, flag, readers, writers, delay,
                 retval, err, fresh, wrapper, rucResult, calls, apiResult,
                 ncalls, nticks>>

\* The task in cur_task is resumed, runs for d ms and produces o, which
\* the loop handles (lines 168-231).
Resume(o, d) ==
  /\ pc = "dispatch"
  /\ ~Callable(cur_task[2])
  /\ clock' = ticks_add(clock, d)
  /\ LET cb == cur_task[2]
         r == Wrapped(cb, o)
         now == ticks_add(clock, d)
     IN  \E e \in {Resumed(o, now)} :
         /\ pc' = e.pc
         /\ err' = e.err
         /\ q' = e.q
         /\ lpq' = e.lpq
         /\ hpq' = e.hpq
         /\ readers' = e.readers
         /\ writers' = e.writers
         /\ retval' = e.retval
         /\ calls' = e.calls
         /\ cur_task' = IF e.pc = "select" THEN Idle ELSE cur_task
         /\ sel' = IF e.pc = "select" THEN "none" ELSE sel
         /\ rucResult' = IF e.pc = "returned" /\ wrapper # 0
                         THEN NoneV ELSE rucResult
         /\ fresh' = IF r.tag = "StopIteration" THEN fresh \cup {cb}
                     ELSE IF r.tag = "type_gen" /\ e.q # q THEN fresh \ {r.arg}
                     ELSE fresh
         /\ sleepLeft' = [Slept(d) EXCEPT ![cb] = AskedDelay(r)]
         /\ slept' = [slept EXCEPT ![cb] = AskedDelay(r) > 0]
  /\ UNCHANGED <<max_overdue, flag, delay, wrapper, apiResult, ncalls,
                 nticks>>

\* ------------------------------------------------------------- entry points
RunForever ==
  /\ pc = "init"
  /\ pc' = "select"
  /\ apiResult' = "ok"
  /\ UNCHANGED <<clock, q, lpq, hpq, max_overdue, flag, readers, writers,
                 cur_task, sel, delay, retval, err, fresh, wrapper,
                 rucResult, calls, sleepLeft, slept, ncalls, nticks>>

\* run_until_complete(coro): call_soon(_run_and_stop()), then run_forever().
RunUntilComplete(coro) ==
  /\ pc = "init"
  /\ LET r == call_soon(q, clock, coro, <<>>)
     IN  /\ q' = r.qu
         /\ apiResult' = IF r.ok THEN "ok" ELSE "QueueFull"
         /\ pc' = IF r.ok THEN "select" ELSE "crashed"
         /\ err' = IF r.ok THEN err ELSE "QueueFull"
         /\ wrapper' = IF r.ok THEN coro ELSE wrapper
         /\ fresh' = IF r.ok THEN fresh \ {coro} ELSE fresh
  /\ UNCHANGED <<clock, lpq, hpq, max_overdue, flag, readers, writers,
                 cur_task, sel, delay, retval, rucResult, calls,
                 sleepLeft, slept, ncalls, nticks>>

\* ------------------------------------------------------------- specification
\* The steps of the loop itself, and of the clock and the predicates.
LoopStep ==
  \/ nticks < MaxTicks /\ Select
  \/ WaitReturn
  \/ ClockTick
  \/ \E p \in Preds : SetFlag(p)

\* The calls that put an entry on NQ or LPQ, or set the loop up.
TimedCalls ==
  \/ \E cb \in Payloads : \E args \in ArgsOf(cb) : CallSoon(cb, args)
  \/ \E cb \in Payloads : \E args \in ArgsOf(cb) : \E n \in Secs :
        CallLater(n, cb, args)
  \/ \E cb \in Payloads : \E args \in ArgsOf(cb) : \E d \in Delays :
        CallAt(ticks_add(clock, d), cb, args)
  \/ \E coro \in fresh : CreateTask(coro)
  \/ \E cb \in Payloads : \E args \in ArgsOf(cb) : \E n \in Secs :
        CallAfter(n, cb, args)
  \/ \E t \in 0..MaxOverdue : MaxOverdueMs(t)
  \/ \E size \in 1..NTasks : AllocateHpq(size)

\* Scheduling: user code uses the whole public interface, and tasks yield
\* the directives that put them back on NQ, LPQ or HPQ, or complete.
SchedYields ==
  {Dir(tag, k) : tag \in {"SleepMs", "AfterMs"}, k \in Delays}
  \cup {Dir("When", p) : p \in Preds}
  \cup {Dir("StopIteration", 0)}

NextSched ==
  \/ TimedCalls
  \/ RunForever
  \/ LoopStep
  \/ \E d \in 0..MaxRun : RunCallback(d)
  \/ \E o \in SchedYields : \E d \in 0..MaxRun : Resume(o, d)

SpecSched == Init /\ [][NextSched]_vars

\* Dispatch: tasks are created and the loop is entered, and a task may
\* produce anything when resumed.
NextDispatch ==
  \/ \E coro \in fresh : CreateTask(coro)
  \/ \E size \in 1..NTasks : AllocateHpq(size)
  \/ RunForever
  \/ \E coro \in fresh : RunUntilComplete(coro)
  \/ LoopStep
  \/ \E h \in Handles : \E writing \in BOOLEAN : IOReady(h, writing)
  \/ \E o \in Outcomes : \E d \in 0..MaxRun : Resume(o, d)

SpecDispatch == Init /\ [][NextDispatch]_vars

\* Spinning: one task yields a zero-delay directive each time it is
\* resumed, next to callbacks and tasks that sleep or complete.  Only NQ
\* is used.  The loop keeps ticking, and time keeps passing while tasks run.
Spinner == CHOOSE t \in Tasks : \A u \in Tasks : t <= u

ZeroYields == {Dir("None", 0), Dir("int", 0), Dir("SleepMs", 0)}

OtherYields ==
  {Dir(tag, k) : tag \in {"SleepMs", "int"}, k \in Delays}
  \cup {Dir("None", 0), Dir("StopIteration", 0)}

SpinYields(cb) == IF cb = Spinner THEN ZeroYields ELSE OtherYields

SpinResume(d) == \E o \in SpinYields(cur_task[2]) : Resume(o, d)

SpinSetup ==
  \/ Spinner \in fresh /\ CreateTask(Spinner)
  \/ Spinner \notin fresh /\ \E coro \in fresh : CreateTask(coro)
  \/ Spinner \notin fresh /\ \E cb \in Payloads : \E args \in ArgsOf(cb) :
        \E n \in Secs : CallLater(n, cb, args)
  \/ Spinner \notin fresh /\ RunForever

NextSpin ==
  \/ SpinSetup
  \/ Select
  \/ \E d \in 0..MaxRun : RunCallback(d)
  \/ \E d \in 0..MaxRun : SpinResume(d)

SpecSpin ==
  /\ Init /\ [][NextSpin]_vars
  /\ WF_vars(Select)
  /\ WF_vars(\E d \in 0..MaxRun : RunCallback(d))
  /\ WF_vars(\E d \in 0..MaxRun : SpinResume(d))
  /\ SF_vars(\E d \in 1..MaxRun : SpinResume(d))

\* Overdue fairness: the override is enabled, NQ holds tasks that yield
\* SleepMs(0) each time they are resumed, and one callback is put on LPQ by
\* call_after.  No HPQ.  The loop keeps ticking, and time keeps passing
\* while tasks run.
OverdueSetup ==
  \/ max_overdue = 0 /\ \E t \in 1..MaxOverdue : MaxOverdueMs(t)
  \/ \E coro \in fresh : CreateTask(coro)
  \/ lpq = <<>> /\ \E cb \in Fns : \E args \in ArgsOf(cb) : \E n \in Secs :
        CallAfter(n, cb, args)
  \/ max_overdue > 0 /\ q # <<>> /\ lpq # <<>> /\ RunForever

OverdueResume(d) == Resume(Dir("SleepMs", 0), d)

NextOverdue ==
  \/ OverdueSetup
  \/ Select
  \/ \E d \in 0..MaxRun : RunCallback(d)
  \/ \E d \in 0..MaxRun : OverdueResume(d)

SpecOverdue ==
  /\ Init /\ [][NextOverdue]_vars
  /\ WF_vars(Select)
  /\ WF_vars(\E d \in 0..MaxRun : RunCallback(d))
  /\ WF_vars(\E d \in 0..MaxRun : OverdueResume(d))
  /\ SF_vars(\E d \in 1..MaxRun : OverdueResume(d))

\* ------------------------------------------------------------- properties
\* Some non-empty HPQ slot holds a predicate that returns true now.
HpTruthy ==
  /\ ~hpq.isNone
  /\ \E i \in 1..Len(hpq.slots) :
        hpq.slots[i][1] # 0 /\ flag[hpq.slots[i][1]]

\* A pass of the selection that hands an entry to dispatch.
Dispatches == pc = "select" /\ pc' = "dispatch"

\* C1.  Priority precedence: at every tick, with NQ empty or not and LPQ
\* empty or not, if some non-empty HPQ slot's predicate is truthy, the entry
\* dispatched at that tick is the HPQ payload, never an NQ or LPQ entry.
C1_HpqPrecedence ==
  [][(Dispatches /\ HpTruthy) =>
       /\ sel' = "hp"
       /\ q' = q
       /\ lpq' = lpq]_vars

\* The LPQ head is later than max_overdue_ms allows.
LpqOverdue == lpq # <<>> /\ Overdue(lpq, clock) > max_overdue

\* C2 as stated.  LPQ fairness: at any tick where LPQ is non-empty and its
\* head has -diff(head.t, now) > max_overdue_ms, the entry dispatched is that
\* LPQ head, even if NQ has due work.
C2_AsStated ==
  [][(Dispatches /\ LpqOverdue) =>
       /\ cur_task' = Head(lpq)
       /\ lpq' = Tail(lpq)]_vars

\* C2.  LPQ fairness with the override enabled: at any tick where
\* max_overdue_ms > 0, LPQ is non-empty and its head has
\* -diff(head.t, now) > max_overdue_ms, the entry dispatched is that LPQ
\* head and NQ is left alone, even if NQ has due work, unless an HPQ
\* predicate fires at that tick.
C2_LpqFairness ==
  [][(Dispatches /\ LpqOverdue /\ max_overdue > 0 /\ sel' # "hp") =>
       /\ cur_task' = Head(lpq)
       /\ lpq' = Tail(lpq)
       /\ q' = q]_vars

\* The override took the LPQ head while the NQ head was due.
C2_Witness ==
  /\ pc = "dispatch"
  /\ sel = "lp_overdue"
  /\ q # <<>>
  /\ ticks_diff(peektime(q), clock) <= 0

\* The payload cb is held by NQ, LPQ or HPQ.
Queued(cb) ==
  \/ \E i \in 1..Len(q) : q[i][2] = cb
  \/ \E i \in 1..Len(lpq) : lpq[i][2] = cb
  \/ \E i \in 1..Len(hpq.slots) : hpq.slots[i][1] # 0 /\ hpq.slots[i][2] = cb
  \/ hpq.raw # <<>> /\ hpq.raw[2] = cb

\* Nothing is put on NQ, LPQ or HPQ, or taken from them.
QueuesKept == q' = q /\ lpq' = lpq /\ hpq' = hpq

Runs == 0..MaxRun

\* C3.  When a resumed task yields StopLoop(v), run_forever returns v at
\* that tick: nothing is dispatched after the return, the yielding task is
\* not re-enqueued, and NQ, LPQ and HPQ are left as they were.
C3_StopLoopReturns ==
  [][/\ pc # "returned"
     /\ \A v \in StopValues : \A d \in Runs :
          Resume(Dir("StopLoop", v), d) =>
            /\ pc' = "returned"
            /\ retval' = IntV(v)
            /\ QueuesKept
            /\ ~Queued(cur_task[2])
            /\ readers' = readers /\ writers' = writers]_vars

\* run_forever has returned 42 and left an entry on NQ.
C3_Witness ==
  /\ pc = "returned"
  /\ retval = IntV(42)
  /\ q # <<>>
  /\ ~Queued(cur_task[2])

\* C4.  run_until_complete(task) returns the value carried by the StopLoop
\* that ends the loop: 42 for a task that yields StopLoop(42), 0 for a task
\* that completes.
C4_ReturnsStopValue ==
  (pc = "returned" /\ wrapper # 0) => rucResult = retval

\* C5.  A task that yields SleepMs(k), or the integer k, is not resumed
\* while any of the k ms it asked for is left, however early wait() returns;
\* and a resumption that yields the integer k is the same step as one that
\* yields SleepMs(k): the task goes on NQ with key now+k and the same args.
C5_SleepMs ==
  /\ [](pc = "dispatch" /\ cur_task[2] \in Tasks
          => sleepLeft[cur_task[2]] = 0)
  /\ [][\A k \in Delays : \A d \in Runs :
          /\ Resume(Dir("int", k), d) <=> Resume(Dir("SleepMs", k), d)
          /\ (Resume(Dir("SleepMs", k), d) /\ pc' = "select") =>
                /\ q' = Inserted(q, ticks_add(clock', k),
                                  cur_task[2], cur_task[3])
                /\ lpq' = lpq /\ hpq' = hpq]_vars

\* A task that asked for a delay > 0 is resumed from NQ.
C5_Witness ==
  /\ pc = "dispatch"
  /\ sel = "nq"
  /\ cur_task[2] \in Tasks
  /\ slept[cur_task[2]]

\* C7.  Task-local failure isolation: when the resumption of a task raises
\* something other than normal completion, the task is dropped, run_forever
\* goes on to the next tick and the other entries stay scheduled.
C7_FailureIsolated ==
  [][\A d \in Runs :
       Resume(Dir("Exception", 0), d) =>
         /\ pc' = "select"
         /\ QueuesKept
         /\ ~Queued(cur_task[2])]_vars

\* C8.  When a resumed task yields a value that is none of the directives
\* (a bare SysCall1, or a value that is no SysCall1, task, integer or None),
\* run_forever fails at that tick with an AssertionError: the task is not
\* put on NQ, LPQ or HPQ, and nothing is dispatched after the failure.
C8_UnknownDirectiveFatal ==
  [][/\ pc # "crashed"
     /\ \A d \in Runs :
          /\ Resume(Dir("other", 0), d) =>
                pc' = "crashed" /\ err' = Unsupported /\ QueuesKept
                /\ ~Queued(cur_task[2])
          /\ Resume(Dir("SysCall1", 0), d) =>
                pc' = "crashed" /\ err' = UnknownSyscall /\ QueuesKept
                /\ ~Queued(cur_task[2])]_vars

\* run_forever has failed on an unsupported value with an entry still on NQ.
C8_Witness ==
  /\ pc = "crashed"
  /\ err = Unsupported
  /\ q # <<>>
  /\ ~Queued(cur_task[2])

\* Task t is registered with the reactor.
Registered(t) ==
  \E h \in Handles : readers[h] = t \/ writers[h] = t

\* C9.  When a task yields IORead(h) (IOWrite(h)), the loop calls
\* add_reader(h, task) (add_writer(h, task)) once and puts the task on none
\* of NQ, LPQ, HPQ; while the task is registered it is neither queued nor
\* resumed; and the reactor hands it back with call_soon, on NQ at the
\* time now, from where it is dispatched as any NQ entry.
C9_IORegisters ==
  /\ [](\A t \in Tasks : Registered(t) =>
          ~Queued(t) /\ ~(pc = "dispatch" /\ cur_task[2] = t))
  /\ [][\A h \in Handles : \A d \in Runs :
          /\ Resume(Dir("IORead", h), d) =>
                /\ calls' = << <<"add_reader", h, cur_task[2]>> >>
                /\ readers' = [readers EXCEPT ![h] = cur_task[2]]
                /\ writers' = writers
                /\ QueuesKept /\ pc' = "select"
          /\ Resume(Dir("IOWrite", h), d) =>
                /\ calls' = << <<"add_writer", h, cur_task[2]>> >>
                /\ writers' = [writers EXCEPT ![h] = cur_task[2]]
                /\ readers' = readers
                /\ QueuesKept /\ pc' = "select"
          /\ (IOReady(h, FALSE) /\ pc' = pc) =>
                q' = Inserted(q, clock, readers[h], <<>>)
          /\ (IOReady(h, TRUE) /\ pc' = pc) =>
                q' = Inserted(q, clock, writers[h], <<>>)]_vars

\* A task has just been registered as a reader while NQ holds another
\* entry.
C9_Witness ==
  /\ pc = "select"
  /\ q # <<>>
  /\ \E h \in Handles :
        /\ readers[h] \in Tasks
        /\ calls = << <<"add_reader", h, readers[h]>> >>

\* The NQ calls of C6, made by user code.
NqCall ==
  \/ \E cb \in Payloads : \E args \in ArgsOf(cb) :
        \/ CallSoon(cb, args)
        \/ \E d \in Delays : CallAt(ticks_add(clock, d), cb, args)
  \/ \E coro \in fresh : CreateTask(coro)

\* C6.  NQ never holds more than the qlen entries it was constructed for,
\* and call_soon, call_at or create_task on a full NQ fails with QueueFull
\* and leaves NQ as it was.
C6_QueueFull ==
  /\ [](Len(q) <= QLenArg)
  /\ [][(Len(q) = QLenArg /\ NqCall) =>
          (q' = q /\ apiResult' = "QueueFull")]_vars

\* After qlen calls that succeeded the next one has failed, with no
\* dispatch in between.
C6_Witness ==
  /\ pc = "init"
  /\ nticks = 0
  /\ ncalls = QLenArg + 1
  /\ Len(q) = QLenArg
  /\ apiResult = "QueueFull"

OnNQ(cb) == \E i \in 1..Len(q) : q[i][2] = cb

\* C10.  No starvation by zero-delay yields: while one task yields a
\* zero-delay directive (None, 0 or SleepMs(0)) each time it is resumed,
\* every other entry that is on NQ of the running loop is eventually
\* dispatched.
C10_NoStarvation ==
  \A b \in (Tasks \ {Spinner}) \cup Fns :
    (pc # "init" /\ OnNQ(b)) ~> (pc = "dispatch" /\ cur_task[2] = b)

\* Another task is dispatched while the spinning task, resumed before, is
\* on NQ.
C10_Witness ==
  /\ pc = "dispatch"
  /\ nticks >= 2
  /\ cur_task[2] \in Tasks \ {Spinner}
  /\ OnNQ(Spinner)

\* The keys of qu lie in a window shorter than half a period: there is an
\* earliest key that no other key precedes.
Windowed(qu) ==
  \/ qu = <<>>
  \/ \E m \in 1..Len(qu) :
        \A j \in 1..Len(qu) : ticks_diff(qu[j][1], qu[m][1]) >= 0

\* No entry of qu is behind an entry with a strictly later key.
Ordered(qu) ==
  \A i, j \in 1..Len(qu) : i < j => ticks_diff(qu[j][1], qu[i][1]) >= 0

\* now is qu with one entry added, behind every entry whose key is not
\* strictly later than its own.
AddedFifo(qu, now) ==
  \E p \in 1..Len(now) :
    /\ now = SubSeq(qu, 1, p - 1) \o <<now[p]>> \o SubSeq(qu, p, Len(qu))
    /\ \A i \in (p + 1)..Len(now) : ticks_diff(now[i][1], now[p][1]) > 0

\* The selection took from qu the entry no other entry precedes.
TookEarliest(qu, now) ==
  /\ qu = <<cur_task'>> \o now
  /\ Windowed(qu) =>
       \A i \in 1..Len(now) : ticks_diff(now[i][1], cur_task'[1]) >= 0

\* C11 as stated.  For any two entries on the same queue (NQ or LPQ), the
\* one whose key is earlier under the wraparound-aware diff is dispatched
\* first: no entry is queued behind one with a strictly later key.
C11_AsStated == Ordered(q) /\ Ordered(lpq)

\* C11.  Dispatch order within one queue, also across clock wraparound:
\* while the keys held on a queue (NQ or LPQ) lie within a window shorter
\* than half the clock period, no entry is behind one with a strictly later
\* key, the selection takes the entry no other precedes, and an entry is
\* added behind the entries of equal key (FIFO).
C11_DispatchOrder ==
  /\ [](/\ Windowed(q) => Ordered(q)
        /\ Windowed(lpq) => Ordered(lpq))
  /\ [][/\ (Dispatches /\ sel' = "nq") => TookEarliest(q, q')
        /\ (Dispatches /\ sel' \in {"lp", "lp_idle", "lp_overdue"}) =>
              TookEarliest(lpq, lpq')
        /\ (Len(q') = Len(q) + 1 /\ Windowed(q')) => AddedFifo(q, q')
        /\ (Len(lpq') = Len(lpq) + 1 /\ Windowed(lpq')) =>
              AddedFifo(lpq, lpq')]_vars

\* Across the wraparound: the entry dispatched from NQ has a numerically
\* larger key than the entry left behind it, which is later.
C11_Witness ==
  /\ pc = "dispatch"
  /\ sel = "nq"
  /\ q # <<>>
  /\ cur_task[1] > q[1][1]
  /\ ticks_diff(cur_task[1], q[1][1]) < 0

\* The number of places that hold the payload t: entries of NQ and of LPQ,
\* HPQ slots in use (or the flat table), reactor registrations.
Holders(t, nq, lq, h, rd, wr) ==
  Cardinality({i \in 1..Len(nq) : nq[i][2] = t})
  + Cardinality({i \in 1..Len(lq) : lq[i][2] = t})
  + Cardinality({i \in 1..Len(h.slots) :
                   h.slots[i][1] # 0 /\ h.slots[i][2] = t})
  + (IF h.raw # <<>> /\ h.raw[2] = t THEN 1 ELSE 0)
  + Cardinality({x \in Handles : rd[x] = t})
  + Cardinality({x \in Handles : wr[x] = t})

\* The directives after which the task is to be registered again.
RequeueYields ==
  {Dir(tag, k) : tag \in {"SleepMs", "AfterMs", "int"}, k \in Delays}
  \cup {Dir(tag, n) : tag \in {"Sleep", "After"}, n \in Secs}
  \cup {Dir("When", p) : p \in Preds}
  \cup {Dir(tag, h) : tag \in {"IOReadDone", "IOWriteDone"}, h \in Handles}
  \cup {Dir("type_gen", n) : n \in Tasks}
  \cup {Dir("None", 0)}

\* C12.  Single registration of a task: a resumption that yields a
\* directive other than StopLoop, IORead and IOWrite is followed, before the
\* next tick, by exactly one registration of the task on NQ, LPQ or HPQ (and
\* of a nested task it yielded on NQ), whatever the directive and the fill
\* level of the queues.
C12_SingleRegistration ==
  [][\A o \in RequeueYields : \A d \in Runs :
       Resume(o, d) =>
         /\ pc' = "select"
         /\ Holders(cur_task[2], q', lpq', hpq', readers', writers') = 1
         /\ o.tag = "type_gen" =>
               Holders(o.arg, q', lpq', hpq', readers', writers') = 1]_vars

\* How far the clock is past the key of the LPQ head (start + D for an
\* entry added by call_after with delay D).
Late == ticks_diff(clock, peektime(lpq))

\* C13 as stated.  Bounded overdue of a low-priority callback: the callback
\* put on LPQ by call_after with delay D has been dispatched by the time the
\* clock reads start + D + M: while it is still on LPQ, the clock has not
\* passed start + D + M.
C13_AsStated == lpq # <<>> => Late <= max_overdue

\* C13.  Overdue of a low-priority callback, with max_overdue_ms = M > 0, no
\* HPQ entries and NQ tasks that yield SleepMs(0) forever: the callback put
\* on LPQ by call_after with delay D is dispatched at the first tick at
\* which the clock reads later than start + D + M and at no tick before;
\* that tick comes; and the callback is never dispatched a second time.
C13_BoundedOverdue ==
  /\ [][(Select /\ lpq # <<>>) =>
          (sel' = "lp_overdue" <=> Late > max_overdue)]_vars
  /\ [][(Select /\ lpq # <<>> /\ sel' # "lp_overdue") =>
          (sel' = "nq" /\ lpq' = lpq)]_vars
  /\ [][(pc # "init" /\ lpq = <<>>) =>
          (lpq' = <<>> /\ ~Callable(cur_task'[2])
           /\ \A cb \in Fns : ~OnNQ(cb)')]_vars
  /\ (pc = "select" /\ lpq # <<>>) ~> (pc = "dispatch" /\ sel = "lp_overdue")

\* The callback is dispatched by the override, one millisecond after
\* start + D + M, with a task due on NQ.
C13_Witness ==
  /\ pc = "dispatch"
  /\ sel = "lp_overdue"
  /\ Callable(cur_task[2])
  /\ ticks_diff(clock, cur_task[1]) = max_overdue + 1
  /\ q # <<>>
  /\ lpq = <<>>

\* The NQ head is due.
NqDue == q # <<>> /\ ticks_diff(peektime(q), clock) <= 0

\* C14.  NQ due precedes LPQ due: at a tick where the NQ head is due, an
\* entry is taken from LPQ only if max_overdue_ms > 0 and the LPQ head is
\* overdue by more than max_overdue_ms; with max_overdue_ms = 0 no LPQ
\* entry is dispatched while the NQ head is due, however late it is.
C14_OverrideDisabled ==
  [][(Dispatches /\ NqDue /\ lpq' # lpq) =>
       (max_overdue > 0 /\ Overdue(lpq, clock) > max_overdue)]_vars

\* With max_overdue_ms = 0 the NQ head is dispatched while the LPQ head is
\* late.
C14_Witness ==
  /\ pc = "dispatch"
  /\ sel = "nq"
  /\ max_overdue = 0
  /\ lpq # <<>>
  /\ Late > 0

\* C15.  schedule_hp on an absent table: when a task yields When(p) and the
\* HPQ does not exist yet, the table is created with exactly one slot, which
\* holds the triple (p, task, args), and the next HPQ scan evaluates the
\* predicates of the table without failing.
C15_AbsentTable ==
  /\ [][\A p \in Preds : \A d \in Runs :
          (hpq.isNone /\ Resume(Dir("When", p), d)) =>
            /\ ~hpq'.isNone
            /\ hpq'.slots = << <<p, cur_task[2], cur_task[3]>> >>]_vars
  /\ [][Select => pc' # "crashed"]_vars

\* Slot i of the table is the first whose predicate is 0.
IsFirstEmpty(slots, i) ==
  /\ i \in 1..Len(slots)
  /\ slots[i][1] = 0
  /\ \A j \in 1..(i - 1) : slots[j][1] # 0

\* C16.  HPQ slot recycling: when the HPQ table exists and a task yields
\* When(p), the triple is written into the first empty slot and the table
\* length and every other slot are unchanged; the table grows, by exactly
\* one slot holding the triple, only when no slot is empty; and no other
\* step of the loop changes the length of the table.
C16_SlotRecycling ==
  /\ [][\A p \in Preds : \A d \in Runs :
          (~hpq.isNone /\ Resume(Dir("When", p), d)) =>
            /\ pc' = "select"
            /\ \A i \in 1..Len(hpq.slots) :
                  IsFirstEmpty(hpq.slots, i) =>
                    hpq'.slots = [hpq.slots EXCEPT
                                    ![i] = <<p, cur_task[2], cur_task[3]>>]
            /\ (\A i \in 1..Len(hpq.slots) : hpq.slots[i][1] # 0) =>
                  hpq'.slots =
                    Append(hpq.slots, <<p, cur_task[2], cur_task[3]>>)]_vars
  /\ [][(~hpq.isNone /\ Len(hpq'.slots) # Len(hpq.slots)) =>
          /\ \/ pc = "init"
             \/ \E p \in Preds : \E d \in Runs : Resume(Dir("When", p), d)
          /\ pc # "init" => \A i \in 1..Len(hpq.slots) : hpq.slots[i][1] # 0]_vars

\* C17.  In every reachable state the HPQ holds at most one non-empty slot
\* for a given predicate, whichever tasks yielded When with it.
C17_OneSlotPerPredicate ==
  \A i, j \in 1..Len(hpq.slots) :
    (i # j /\ hpq.slots[i][1] # 0 /\ hpq.slots[j][1] # 0) =>
      hpq.slots[i][1] # hpq.slots[j][1]

\* Slot i of the HPQ holds a waiting task whose predicate returns true now.
Fires(i) == hpq.slots[i][1] # 0 /\ flag[hpq.slots[i][1]]

\* C18.  A task that yielded When(pred) is resumed at the first tick at
\* which pred is truthy: at every pass of the selection, with NQ empty or
\* not and any number of tasks waiting, a waiting task whose predicate is
\* truthy is the entry dispatched, and a task is dispatched from the HPQ
\* only if its predicate is truthy.
C18_WhenResumed ==
  [][Select =>
       /\ \A i \in 1..Len(hpq.slots) :
             Fires(i) => (pc' = "dispatch" /\ cur_task'[2] = hpq.slots[i][2])
       /\ sel' = "hp" =>
             \E i \in 1..Len(hpq.slots) :
               /\ Fires(i)
               /\ cur_task' = <<0, hpq.slots[i][2], hpq.slots[i][3]>>
               /\ hpq'.slots[i][1] = 0]_vars

\* The sequence s without its i-th element.
Without(s, i) == SubSeq(s, 1, i - 1) \o SubSeq(s, i + 1, Len(s))

\* C19.  When a resumed task yields a nested task and NQ takes both
\* entries, NQ gains the nested task and the yielding task, both with the
\* key now and the nested task ahead of the yielding task, the entries it
\* held keep their order, and the selection pops NQ from the head, so that
\* the nested task is resumed before the yielding task is resumed again.
C19_NestedFirst ==
  /\ [][\A n \in Tasks : \A d \in Runs :
          (Resume(Dir("type_gen", n), d) /\ pc' = "select") =>
            \E i, j \in 1..Len(q') :
              /\ i < j
              /\ q'[i] = <<clock', n, <<>>>>
              /\ q'[j] = <<clock', cur_task[2], cur_task[3]>>
              /\ Without(Without(q', j), i) = q]_vars
  /\ [][(Dispatches /\ sel' = "nq") =>
          (cur_task' = Head(q) /\ q' = Tail(q))]_vars

\* Only one task was scheduled by user code; on the second tick a task is
\* dispatched while the other task is on NQ with the same key.
C19_Witness ==
  /\ pc = "dispatch"
  /\ nticks = 2
  /\ ncalls + (IF wrapper # 0 THEN 1 ELSE 0) = 1
  /\ cur_task[2] \in Tasks
  /\ \E i \in 1..Len(q) :
        q[i][2] \in Tasks \ {cur_task[2]} /\ q[i][1] = cur_task[1]

\* C20.  No lost wake-up: the selection blocks indefinitely (wait(-1)) only
\* when NQ is empty, LPQ is empty and no HPQ slot is occupied, and when it
\* blocks with a finite delay, the delay is no longer than the time left
\* until the key of the NQ head and until the key of the LPQ head.
C20_NoLostWakeup ==
  [][(Select /\ pc' = "wait") =>
       /\ delay' = -1 =>
             /\ q = <<>>
             /\ lpq = <<>>
             /\ \A i \in 1..Len(hpq.slots) : hpq.slots[i][1] = 0
             /\ hpq.raw = <<>>
       /\ delay' # -1 =>
             /\ q # <<>> => delay' <= ticks_diff(peektime(q), clock)
             /\ lpq # <<>> => delay' <= ticks_diff(peektime(lpq), clock)]_vars

====
